---- MODULE Spec2Model ----
(***************************************************************************)
(* A model of jsl's Document layer (src/jsl/document.py): the metaclass    *)
(* that collects fields and options at class declaration, the graph walks  *)
(* (walk, iter_fields, resolve_and_walk, resolve_and_iter_fields), the     *)
(* recursion test is_recursive and the schema compilation                  *)
(* (get_definitions_and_schema, get_schema).                               *)
(*                                                                         *)
(* The field classes (jsl.fields), Var and Scope (jsl.roles) and           *)
(* ResolutionScope (jsl.resolutionscope) are imported by document.py but   *)
(* their code is not part of the sources at hand; the operators that stand *)
(* for them are written from the specification text and from               *)
(* src/tests/test_iter_methods.py and are marked "fields layer" below.     *)
(*                                                                         *)
(* Python values are modelled as records tagged by "kind".  A generator is *)
(* modelled by the sequence of the values it yields.  A dict is a          *)
(* function; an OrderedDict is a sequence of [key, value] records with     *)
(* unique keys.                                                            *)
(***************************************************************************)
EXTENDS Integers, Sequences, FiniteSets, TLC

VARIABLES
    registry,        \* names of the declared Document classes (registry.put_document)
    class_bases,     \* cls.__bases__ of every declared class
    class_attrs,     \* the class body (attrs) every class was declared with
    fields,          \* cls._fields
    options,         \* cls._options
    field,           \* cls._field, the implicit DictField
    owner_cls,       \* DocumentField.owner_cls, per DocumentField instance
    op,              \* the call in progress / last call made, with its arguments
    rv,              \* what that call returned (or raised)
    ref_documents    \* the caller's ref_documents set object, as left by the call

vars == <<registry, class_bases, class_attrs, fields, options, field, owner_cls,
          op, rv, ref_documents>>

graph == <<registry, class_bases, class_attrs, fields, options, field, owner_cls>>

(***************************************************************************)
(* Bounds and names.                                                       *)
(***************************************************************************)
\* roles.DEFAULT_ROLE; the named roles are 1..NumRoles
DEFAULT_ROLE == 0

NumRoles == 5

\* the longest class body, in attributes, of the declarations that exercise
\* the metaclass
MaxAttrs == 3

Roles == 0..NumRoles

\* the user's Document classes; "Document" is the root class itself
Docs == {"A", "B"}

Classes == Docs \cup {"Document"}

\* Python's None where a string is expected
NoneValue == "<None>"

\* Python's None where a field / Var / payload is expected
None == [kind |-> "none"]

module == "module"

(***************************************************************************)
(* fields layer: constructors of the values document.py handles.           *)
(***************************************************************************)
StringField(name) == [kind |-> "string", name |-> name]

Bool(b) == [kind |-> "bool", value |-> b]

ArrayField(items, additional_items) ==
    [kind |-> "array", items |-> items, additional_items |-> additional_items]

DictField(properties, pattern_properties, additional_properties, id) ==
    [kind |-> "dict", properties |-> properties,
     pattern_properties |-> pattern_properties,
     additional_properties |-> additional_properties, id |-> id]

NotField(f) == [kind |-> "not", field |-> f]

\* fid names the DocumentField instance (Python object identity)
DocumentField(document_cls, fid) ==
    [kind |-> "document", document_cls |-> document_cls, fid |-> fid]

\* a matcher is the set of roles its predicate accepts
Pair(matcher, value) == [matcher |-> matcher, value |-> value]

Var(values) == [kind |-> "var", values |-> values]

\* a tuple / list of fields or Vars, as a payload or as ArrayField.items
Tuple(items) == [kind |-> "tuple", items |-> items]

Item(key, value) == [key |-> key, value |-> value]

\* a properties mapping: an ordered sequence of Item(name, field-or-Var)
Map(items) == [kind |-> "map", items |-> items]

Scope(matcher, scope_fields) ==
    [kind |-> "scope", matcher |-> matcher, fields |-> scope_fields]

\* the Options class of a class body: its members, name -> value
OptionsClass(members) == [kind |-> "options_class", members |-> members]

all_ == Roles

construct_matcher(role) == {role}

IsBaseField(v) == v.kind \in {"string", "array", "dict", "not", "document"}

IsVar(v) == v.kind = "var"

IsScope(v) == v.kind = "scope"

(***************************************************************************)
(* Sequence helpers.                                                       *)
(***************************************************************************)
Range(s) == {s[i] : i \in DOMAIN s}

RECURSIVE Concat(_)
\* the concatenation of a sequence of sequences (itertools.chain)
Concat(ss) == IF ss = <<>> THEN <<>> ELSE Head(ss) \o Concat(Tail(ss))

Reverse(s) == [i \in 1..Len(s) |-> s[Len(s) + 1 - i]]

Keys(m) == [i \in 1..Len(m) |-> m[i].key]

HasKey(m, k) == \E i \in DOMAIN m : m[i].key = k

Get(m, k) == m[CHOOSE i \in DOMAIN m : m[i].key = k].value

\* OrderedDict.__setitem__: an existing key keeps its position
Put(m, k, v) ==
    IF HasKey(m, k)
    THEN [i \in DOMAIN m |-> IF m[i].key = k THEN Item(k, v) ELSE m[i]]
    ELSE Append(m, Item(k, v))

RECURSIVE Update(_, _)
\* OrderedDict.update(other)
Update(m, other) ==
    IF other = <<>> THEN m
    ELSE Update(Put(m, Head(other).key, Head(other).value), Tail(other))

(***************************************************************************)
(* fields layer: role resolution and the one-level iterators.              *)
(***************************************************************************)
RECURSIVE Resolve(_, _)
\* Resolvable.resolve(role): the payload of the first matching branch of a
\* Var (None when no branch matches), anything else resolves to itself
Resolve(v, role) ==
    IF IsVar(v)
    THEN IF \E i \in DOMAIN v.values : role \in v.values[i].matcher
         THEN LET i == CHOOSE i \in DOMAIN v.values :
                           /\ role \in v.values[i].matcher
                           /\ \A j \in 1..(i - 1) : role \notin v.values[j].matcher
              IN  Resolve(v.values[i].value, role)
         ELSE None
    ELSE v

RECURSIVE SlotFields(_)
\* the fields of a slot over every branch: iter_possible_values, with None
\* skipped and tuples and property mappings flattened
SlotFields(slot) ==
    CASE IsBaseField(slot) -> <<slot>>
      [] slot.kind = "var" ->
            Concat([i \in DOMAIN slot.values |-> SlotFields(slot.values[i].value)])
      [] slot.kind = "tuple" ->
            Concat([i \in DOMAIN slot.items |-> SlotFields(slot.items[i])])
      [] slot.kind = "map" ->
            Concat([i \in DOMAIN slot.items |-> SlotFields(slot.items[i].value)])
      [] OTHER -> <<>>

RECURSIVE ResolvedSlotFields(_, _)
\* the fields of a slot once every Var is resolved against role
ResolvedSlotFields(slot, role) ==
    CASE IsBaseField(slot) -> <<slot>>
      [] slot.kind = "var" -> ResolvedSlotFields(Resolve(slot, role), role)
      [] slot.kind = "tuple" ->
            Concat([i \in DOMAIN slot.items |->
                        ResolvedSlotFields(slot.items[i], role)])
      [] slot.kind = "map" ->
            Concat([i \in DOMAIN slot.items |->
                        ResolvedSlotFields(slot.items[i].value, role)])
      [] OTHER -> <<>>

(***************************************************************************)
(* The walks.  Field_* are the fields layer, Document_* are the            *)
(* classmethods of Document.                                               *)
(***************************************************************************)
RECURSIVE Field_iter_fields(_)
RECURSIVE Field_resolve_and_iter_fields(_, _)
RECURSIVE Field_walk(_, _, _)
RECURSIVE Field_resolve_and_walk(_, _, _, _)
RECURSIVE Document_iter_fields(_)
RECURSIVE Document_resolve_and_iter_fields(_, _)
RECURSIVE Document_walk(_, _, _)
RECURSIVE Document_resolve_and_walk(_, _, _, _)

\* BaseField.iter_fields and its overrides: the fields one level below f,
\* every branch of every Var included
Field_iter_fields(f) ==
    CASE f.kind = "array" -> SlotFields(f.items) \o SlotFields(f.additional_items)
      [] f.kind = "dict" ->
            SlotFields(f.properties) \o SlotFields(f.pattern_properties)
                \o SlotFields(f.additional_properties)
      [] f.kind = "not" -> SlotFields(f.field)
      [] f.kind = "document" -> Document_iter_fields(f.document_cls)
      [] OTHER -> <<>>

\* BaseField.resolve_and_iter_fields and its overrides
Field_resolve_and_iter_fields(f, role) ==
    CASE f.kind = "array" ->
            ResolvedSlotFields(f.items, role)
                \o ResolvedSlotFields(f.additional_items, role)
      [] f.kind = "dict" ->
            ResolvedSlotFields(f.properties, role)
                \o ResolvedSlotFields(f.pattern_properties, role)
                \o ResolvedSlotFields(f.additional_properties, role)
      [] f.kind = "not" -> ResolvedSlotFields(f.field, role)
      [] f.kind = "document" ->
            Document_resolve_and_iter_fields(f.document_cls, role)
      [] OTHER -> <<>>

\* BaseField.walk; DocumentField.walk descends into its Document only when
\* asked to and when the Document is not in visited_documents
Field_walk(f, through_document_fields, visited_documents) ==
    <<f>> \o
    IF f.kind = "document"
    THEN IF through_document_fields /\ f.document_cls \notin visited_documents
         THEN Document_walk(f.document_cls, through_document_fields,
                            visited_documents \cup {f.document_cls})
         ELSE <<>>
    ELSE LET subs == Field_iter_fields(f)
         IN  Concat([i \in DOMAIN subs |->
                 Field_walk(subs[i], through_document_fields, visited_documents)])

\* BaseField.resolve_and_walk; DocumentField.resolve_and_walk
Field_resolve_and_walk(f, role, through_document_fields, visited_documents) ==
    <<f>> \o
    IF f.kind = "document"
    THEN IF through_document_fields /\ f.document_cls \notin visited_documents
         THEN Document_resolve_and_walk(f.document_cls, role,
                  through_document_fields,
                  visited_documents \cup {f.document_cls})
         ELSE <<>>
    ELSE LET subs == Field_resolve_and_iter_fields(f, role)
         IN  Concat([i \in DOMAIN subs |->
                 Field_resolve_and_walk(subs[i], role, through_document_fields,
                                        visited_documents)])

Document_resolve_and_iter_fields_default_role(cls, role) ==
    Field_resolve_and_iter_fields(field[cls], DEFAULT_ROLE)

\* Document.resolve_and_iter_fields
Document_resolve_and_iter_fields(cls, role) ==
    Field_resolve_and_iter_fields(field[cls], role)

\* Document.resolve_and_walk: next(fields) drops _field itself
Document_resolve_and_walk(cls, role, through_document_fields, visited_documents) ==
    Tail(Field_resolve_and_walk(field[cls], role, through_document_fields,
                                visited_documents))

Document_iter_fields_walk(cls) == Field_walk(field[cls], FALSE, {})

\* Document.iter_fields
Document_iter_fields(cls) == Field_iter_fields(field[cls])

\* Document.walk: next(fields) drops _field itself
Document_walk(cls, through_document_fields, visited_documents) ==
    Tail(Field_walk(field[cls], through_document_fields, visited_documents))

is_recursive_any_target(cls, role) ==
    LET walked == Document_resolve_and_walk(cls, role, TRUE, {cls})
    IN  \E i \in DOMAIN walked : walked[i].kind = "document"

\* Document.is_recursive
is_recursive(cls, role) ==
    LET walked == Document_resolve_and_walk(cls, role, TRUE, {cls})
    IN  \E i \in DOMAIN walked :
            /\ walked[i].kind = "document"
            /\ walked[i].document_cls = cls

\* Document.get_definition_id
get_definition_id(cls) ==
    IF options[cls].definition_id \notin {NoneValue, ""}
    THEN options[cls].definition_id
    ELSE module \o "." \o cls

(***************************************************************************)
(* fields layer: ResolutionScope.  URIs are opaque strings; an id is taken *)
(* as an absolute URI, so joining it to a base gives the id itself.        *)
(***************************************************************************)
ResolutionScope(base, current, output) ==
    [base |-> base, current |-> current, output |-> output]

EMPTY_SCOPE == ResolutionScope("", "", "")

\* ResolutionScope.replace(output=...)
replace_output(res_scope, output) == [res_scope EXCEPT !.output = output]

\* ResolutionScope.alter(field_id): a non-empty id restarts base and current
alter(res_scope, id) ==
    IF id = "" THEN res_scope
    ELSE [res_scope EXCEPT !.base = id, !.current = id]

\* the "$ref" string: the output URI when it differs from the current one,
\* then "#/definitions/<definition_id>"
RefString(uri, definition_id) == [uri |-> uri, definition_id |-> definition_id]

\* ResolutionScope.create_ref(definition_id)
create_ref(res_scope, definition_id) ==
    "$ref" :> RefString(IF res_scope.current = res_scope.output
                        THEN "" ELSE res_scope.output, definition_id)

(***************************************************************************)
(* Compilation.  A call returns                                            *)
(*   status          "ok", or "RecursionError" when the call never comes   *)
(*                   back: it re-enters itself with the same arguments     *)
(*                   (Python ends this with "maximum recursion depth       *)
(*                   exceeded")                                            *)
(*   definitions     the definitions dict                                  *)
(*   schema          the schema dict                                       *)
(*   ref_documents   the object passed as ref_documents, as the call left  *)
(*                   it                                                    *)
(* and a record `did` of what happened during the call:                    *)
(*   compiled        the Documents whose get_definitions_and_schema ran    *)
(*   stored          the Documents stored into definitions (line 305)      *)
(*   referenced      the Documents a "$ref" was created for                *)
(*   reentered       whether get_definitions_and_schema of a Document was  *)
(*                   entered while an earlier call of it was still running *)
(* path is the stack of the calls of Document.get_definitions_and_schema   *)
(* that are running.                                                       *)
(***************************************************************************)
NoSet == [kind |-> "none"]

SetObject(members) == [kind |-> "set", members |-> members]

\* the truth value of a ref_documents argument
Truthy(rd) == rd.kind = "set" /\ rd.members # {}

Nothing ==
    [compiled |-> {}, stored |-> {}, referenced |-> {}, reentered |-> FALSE]

Both(d1, d2) ==
    [compiled |-> d1.compiled \cup d2.compiled,
     stored |-> d1.stored \cup d2.stored,
     referenced |-> d1.referenced \cup d2.referenced,
     reentered |-> d1.reentered \/ d2.reentered]

Raised(status, rd, did) ==
    [status |-> status, definitions |-> <<>>, schema |-> <<>>, schemas |-> <<>>,
     ref_documents |-> rd, did |-> did]

Returned(definitions, schema, rd, did) ==
    [status |-> "ok", definitions |-> definitions, schema |-> schema,
     schemas |-> <<>>, ref_documents |-> rd, did |-> did]

Frame(cls, role, res_scope, rd) ==
    [cls |-> cls, role |-> role, res_scope |-> res_scope, ref_documents |-> rd]

\* the resolved (key, field) items of a properties slot
ResolvedItems(slot, role) ==
    LET m == Resolve(slot, role)
    IN  IF m.kind = "map"
        THEN SelectSeq([i \in DOMAIN m.items |->
                           Item(m.items[i].key, Resolve(m.items[i].value, role))],
                       LAMBDA it : IsBaseField(it.value))
        ELSE <<>>

Values(items) == [i \in DOMAIN items |-> items[i].value]

\* the dict key -> schema of the items whose schemas start at schemas[from + 1]
SchemaMap(items, schemas, from) ==
    [k \in {items[i].key : i \in DOMAIN items} |->
        schemas[from + (CHOOSE i \in DOMAIN items : items[i].key = k)]]

\* the end of CompileSeq: the head's result h joined with the tail's t
SeqJoin(h, t) ==
    IF t.status # "ok"
    THEN Raised(t.status, t.ref_documents, Both(h.did, t.did))
    ELSE [Returned(t.definitions @@ h.definitions, <<>>, t.ref_documents,
                   Both(h.did, t.did))
             EXCEPT !.schemas = <<h.schema>> \o t.schemas]

\* the end of ArrayField.get_definitions_and_schema: r holds the schemas of
\* the n items and of the additional items (when more is not empty)
ArraySchema(items, n, more, additional, r) ==
    IF r.status # "ok" THEN r
    ELSE [r EXCEPT !.schemas = <<>>, !.schema =
            [type |-> "array"]
            @@ (IF items.kind = "tuple"
                THEN "items" :> SubSeq(r.schemas, 1, n)
                ELSE IF n = 1 THEN "items" :> r.schemas[1] ELSE <<>>)
            @@ (IF more # <<>>
                THEN "additionalItems" :> r.schemas[n + 1]
                ELSE IF additional.kind = "bool"
                THEN "additionalItems" :> additional.value
                ELSE <<>>)]

\* the end of DictField.get_definitions_and_schema: r holds the schemas of
\* the properties, the pattern properties and the additional properties
DictSchema(f, props, patterns, more, additional, r) ==
    IF r.status # "ok" THEN r
    ELSE [r EXCEPT !.schemas = <<>>, !.schema =
            [type |-> "object"]
            @@ (IF f.id # "" THEN "id" :> f.id ELSE <<>>)
            @@ (IF props # <<>>
                THEN "properties" :> SchemaMap(props, r.schemas, 0)
                ELSE <<>>)
            @@ (IF patterns # <<>>
                THEN "patternProperties" :>
                         SchemaMap(patterns, r.schemas, Len(props))
                ELSE <<>>)
            @@ (IF more # <<>>
                THEN "additionalProperties" :>
                         r.schemas[Len(props) + Len(patterns) + 1]
                ELSE IF additional.kind = "bool"
                THEN "additionalProperties" :> additional.value
                ELSE <<>>)]

SameRefDocuments(rd) ==
    [members |-> IF Truthy(rd) THEN rd.members ELSE {}, same_object |-> Truthy(rd)]

\* line 295, set(ref_documents) if ref_documents else set(): a new set object
\* with the members of the argument
CopyRefDocuments(rd) ==
    [members |-> IF Truthy(rd) THEN rd.members ELSE {}, same_object |-> FALSE]

DropDefinition(definitions, definition_id, schema) == definitions

\* line 305, definitions[definition_id] = schema
StoreDefinition(definitions, definition_id, schema) ==
    (definition_id :> schema) @@ definitions

\* lines 303-308, after the Document's _field is compiled into r with the
\* ref_documents and the scope lines 294-297 made; rd is the caller's argument
DocumentReturn(cls, recursive, copy, scope, rd, reentered, r) ==
    LET \* the caller's object: the one line 296 and the nested calls worked
        \* on only when no new object was made for them
        left == IF recursive /\ ~copy.same_object THEN rd ELSE r.ref_documents
        definition_id == get_definition_id(cls)
        entered == [Nothing EXCEPT !.compiled = {cls}, !.reentered = reentered]
        extracted == [entered EXCEPT !.stored = {cls}, !.referenced = {cls}]
    IN  IF r.status # "ok"
        THEN Raised(r.status, left, Both(r.did, entered))
        ELSE IF recursive
        THEN Returned(StoreDefinition(r.definitions, definition_id, r.schema),
                      create_ref(scope, definition_id), left,
                      Both(r.did, extracted))
        ELSE Returned(r.definitions, r.schema, left, Both(r.did, entered))

RECURSIVE Field_get_definitions_and_schema(_, _, _, _, _)
RECURSIVE CompileSeq(_, _, _, _, _)
RECURSIVE CompileRest(_, _, _, _, _)
RECURSIVE Document_get_definitions_and_schema(_, _, _, _, _)

\* the schemas of a sequence of fields, compiled in order, their definitions
\* merged by dict.update
CompileSeq(fs, role, res_scope, rd, path) ==
    IF fs = <<>> THEN Returned(<<>>, <<>>, rd, Nothing)
    ELSE CompileRest(
             Field_get_definitions_and_schema(Head(fs), role, res_scope, rd, path),
             Tail(fs), role, res_scope, path)

\* CompileSeq after the head's result h
CompileRest(h, rest, role, res_scope, path) ==
    IF h.status # "ok" THEN h
    ELSE SeqJoin(h, CompileSeq(rest, role, res_scope, h.ref_documents, path))

\* BaseField.get_definitions_and_schema and its overrides
Field_get_definitions_and_schema(f, role, res_scope, rd, path) ==
    CASE f.kind = "string" -> Returned(<<>>, [type |-> "string"], rd, Nothing)
      [] f.kind = "document" ->
            \* a Document of ref_documents becomes a reference, and its schema
            \* is not put into the definitions
            IF Truthy(rd) /\ f.document_cls \in rd.members
            THEN Returned(<<>>,
                          create_ref(res_scope, get_definition_id(f.document_cls)),
                          rd, [Nothing EXCEPT !.referenced = {f.document_cls}])
            ELSE Document_get_definitions_and_schema(f.document_cls, role,
                                                     res_scope, rd, path)
      [] f.kind \in {"array", "dict"} ->
            LET items == Resolve(f.items, role)
                item_fields == ResolvedSlotFields(items, role)
                props == ResolvedItems(f.properties, role)
                patterns == ResolvedItems(f.pattern_properties, role)
                additional == Resolve(IF f.kind = "array" THEN f.additional_items
                                      ELSE f.additional_properties, role)
                more == IF IsBaseField(additional) THEN <<additional>> ELSE <<>>
                r == CompileSeq(
                         IF f.kind = "array" THEN item_fields \o more
                         ELSE Values(props) \o Values(patterns) \o more,
                         role,
                         IF f.kind = "array" THEN res_scope
                         ELSE alter(res_scope, f.id),
                         rd, path)
            IN  IF f.kind = "array"
                THEN ArraySchema(items, Len(item_fields), more, additional, r)
                ELSE DictSchema(f, props, patterns, more, additional, r)

\* Document.get_definitions_and_schema
Document_get_definitions_and_schema(cls, role, res_scope, rd, path) ==
    LET frame == Frame(cls, role, res_scope, rd)
        recursive == is_recursive(cls, DEFAULT_ROLE)
        copy == CopyRefDocuments(rd)
        ref_docs == IF recursive THEN SetObject(copy.members \cup {cls}) ELSE rd
        scope == IF recursive THEN replace_output(res_scope, res_scope.base)
                 ELSE res_scope
    IN  IF \E i \in DOMAIN path : path[i] = frame
        THEN Raised("RecursionError", rd,
                    [Nothing EXCEPT !.compiled = {cls}, !.reentered = TRUE])
        ELSE DocumentReturn(cls, recursive, copy, scope, rd,
                 \E i \in DOMAIN path : path[i].cls = cls,
                 Field_get_definitions_and_schema(field[cls], role, scope,
                                                  ref_docs, Append(path, frame)))

\* lines 255-263
SchemaDocument(cls, r) ==
    IF r.status # "ok" THEN r
    ELSE [r EXCEPT !.schema =
            r.schema
            @@ (IF options[cls].id # "" THEN "id" :> options[cls].id ELSE <<>>)
            @@ (IF options[cls].schema_uri # NoneValue
                THEN "$schema" :> options[cls].schema_uri ELSE <<>>)
            @@ (IF DOMAIN r.definitions # {}
                THEN "definitions" :> r.definitions ELSE <<>>)]

\* Document.get_schema
get_schema(cls, role) ==
    SchemaDocument(cls,
        Document_get_definitions_and_schema(
            cls, role, ResolutionScope(options[cls].id, options[cls].id, ""),
            NoSet, <<>>))

(***************************************************************************)
(* Class declaration: DocumentMeta.                                        *)
(* Of Options only id, schema_uri and definition_id are modelled; the      *)
(* other options keep their defaults (additional_properties = False,       *)
(* pattern_properties = None, roles_to_propagate = all_()).                *)
(***************************************************************************)
DefaultSchemaUri == "http://json-schema.org/draft-04/schema#"

OptionNames == {"id", "schema_uri", "definition_id"}

\* Options.__init__: the defaults of the arguments that are not given
Options(given) ==
    [id |-> IF "id" \in DOMAIN given THEN given["id"] ELSE "",
     schema_uri |-> IF "schema_uri" \in DOMAIN given
                    THEN given["schema_uri"] ELSE DefaultSchemaUri,
     definition_id |-> IF "definition_id" \in DOMAIN given
                       THEN given["definition_id"] ELSE NoneValue]

to_be_replaced == [kind |-> "to_be_replaced"]

RECURSIVE InheritedFields(_)
\* lines 104-108: fields.update(base._fields) for base in reversed(bases);
\* bases is given here already reversed
InheritedFields(reversed_bases) ==
    IF reversed_bases = <<>> THEN <<>>
    ELSE Update(InheritedFields(SubSeq(reversed_bases, 1, Len(reversed_bases) - 1)),
                fields[reversed_bases[Len(reversed_bases)]])

RECURSIVE MarkScopeKeys(_, _)
\* lines 120-121
MarkScopeKeys(pre_fields, scope_keys) ==
    IF scope_keys = <<>> THEN pre_fields
    ELSE MarkScopeKeys(Put(pre_fields, Head(scope_keys), to_be_replaced),
                       Tail(scope_keys))

RECURSIVE PreFields(_, _)
\* lines 113-121: pre_fields after the first n attrs are read
PreFields(attrs, n) ==
    IF n = 0 THEN <<>>
    ELSE LET before == PreFields(attrs, n - 1)
             key == attrs[n].key
             value == attrs[n].value
         IN  IF IsBaseField(value) \/ IsVar(value) THEN Put(before, key, value)
             ELSE IF IsScope(value) THEN MarkScopeKeys(before, Keys(value.fields))
             ELSE before

\* lines 114, 119: the Scopes of the class body, in its order
Scopes(attrs) ==
    LET scope_attrs == SelectSeq(attrs, LAMBDA a : IsScope(a.value))
    IN  [i \in DOMAIN scope_attrs |-> scope_attrs[i].value]

\* lines 125-129
ScopeVar(scopes, name) ==
    LET with_name == SelectSeq(scopes, LAMBDA sc : HasKey(sc.fields, name))
    IN  Var([i \in DOMAIN with_name |->
                Pair(with_name[i].matcher, Get(with_name[i].fields, name))])

RECURSIVE OverlayFields(_, _, _)
\* lines 123-131
OverlayFields(inherited, pre_fields, scopes) ==
    IF pre_fields = <<>> THEN inherited
    ELSE LET name == Head(pre_fields).key
             f == Head(pre_fields).value
         IN  OverlayFields(
                 Put(inherited, name,
                     IF f = to_be_replaced THEN ScopeVar(scopes, name) ELSE f),
                 Tail(pre_fields), scopes)

collect_fields_first_scope(bases, attrs) ==
    LET scopes == Scopes(attrs)
    IN  OverlayFields(InheritedFields(Reverse(bases)),
                      PreFields(attrs, Len(attrs)),
                      IF scopes = <<>> THEN <<>> ELSE <<Head(scopes)>>)

collect_fields_bases_last(bases, attrs) ==
    Update(OverlayFields(<<>>, PreFields(attrs, Len(attrs)), Scopes(attrs)),
           InheritedFields(Reverse(bases)))

\* DocumentMeta.collect_fields
collect_fields(bases, attrs) ==
    OverlayFields(InheritedFields(Reverse(bases)),
                  PreFields(attrs, Len(attrs)), Scopes(attrs))

RECURSIVE InheritedOptions(_)
\* lines 142-148: the members of every base's _options that are not None;
\* bases is given here already reversed, and a later one overwrites
InheritedOptions(reversed_bases) ==
    IF reversed_bases = <<>> THEN <<>>
    ELSE LET base == reversed_bases[Len(reversed_bases)]
             mine == {k \in OptionNames : options[base][k] # NoneValue}
         IN  [k \in mine |-> options[base][k]]
             @@ InheritedOptions(SubSeq(reversed_bases, 1, Len(reversed_bases) - 1))

\* DocumentMeta.collect_options
collect_options(bases, attrs) ==
    LET inherited == InheritedOptions(Reverse(bases))
    IN  IF HasKey(attrs, "Options")
        THEN LET members == Get(attrs, "Options").members
                 mine == {k \in DOMAIN members : members[k] # NoneValue}
             IN  [k \in mine |-> members[k]] @@ inherited
        ELSE inherited

\* DocumentMeta.create_options
create_options(given) == Options(given)

\* _set_owner_to_document_fields(cls), on the class whose _field is cls_field:
\* owner_cls after it
set_owners(cls, cls_field, owners) ==
    LET walked == Tail(Field_walk(cls_field, FALSE, {cls}))
    IN  [f \in DOMAIN owners |->
            IF \E i \in DOMAIN walked :
                   walked[i].kind = "document" /\ walked[i].fid = f
            THEN cls ELSE owners[f]]

\* a DocumentField instance: the class body that created it and its place there
Fid(cls, n) == [cls |-> cls, n |-> n]

\* n = 0: made outside any class body
Fids == [cls : Docs, n : {0, 1, 2}]

Idle == [name |-> "idle"]

\* DocumentMeta.__new__
DocumentMeta_new(name, bases, attrs) ==
    /\ op = Idle
    /\ name \notin registry
    /\ \A i \in DOMAIN bases : bases[i] = "Document" \/ bases[i] \in registry
    /\ LET new_fields == collect_fields(bases, attrs)
           new_options == create_options(collect_options(bases, attrs))
           new_field == DictField(Map(new_fields), None, Bool(FALSE), new_options.id)
       IN  /\ fields' = [fields EXCEPT ![name] = new_fields]
           /\ options' = [options EXCEPT ![name] = new_options]
           /\ field' = [field EXCEPT ![name] = new_field]
           /\ owner_cls' = set_owners(name, new_field, owner_cls)
    /\ registry' = registry \cup {name}
    /\ class_bases' = [class_bases EXCEPT ![name] = bases]
    /\ class_attrs' = [class_attrs EXCEPT ![name] = attrs]
    /\ UNCHANGED <<op, rv, ref_documents>>

\* the module as imported: only Document itself exists, and it is removed
\* from the registry (line 312)
Init ==
    /\ registry = {}
    /\ class_bases = [c \in Classes |-> <<>>]
    /\ class_attrs = [c \in Classes |-> <<>>]
    /\ fields = [c \in Classes |-> <<>>]
    /\ options = [c \in Classes |-> Options(<<>>)]
    /\ field = [c \in Classes |-> DictField(Map(<<>>), None, Bool(FALSE), "")]
    /\ owner_cls = [f \in Fids |-> NoneValue]
    /\ op = Idle
    /\ rv = None
    /\ ref_documents = NoSet

(***************************************************************************)
(* The calls of the public classmethods.  A call is made when no call is   *)
(* in progress, on a declared class whose DocumentFields all point to      *)
(* declared classes; Return hands the result to the caller.                *)
(***************************************************************************)
Targets(cls) ==
    LET walked == Document_walk(cls, FALSE, {})
    IN  {walked[i].document_cls :
            i \in {j \in DOMAIN walked : walked[j].kind = "document"}}

Callable(cls) ==
    /\ op = Idle
    /\ cls \in registry
    /\ \A d \in registry : Targets(d) \subseteq registry

Call(name, cls, role, through, res_scope, rd) ==
    [name |-> name, cls |-> cls, role |-> role,
     through_document_fields |-> through, res_scope |-> res_scope,
     ref_documents |-> rd]

CallerScopes == {EMPTY_SCOPE, ResolutionScope("base", "current", "output")}

\* the ref_documents arguments: None, or a set of declared classes
CallerRefDocuments == {NoSet} \cup {SetObject(S) : S \in SUBSET registry}

CallGetSchema(cls, role) ==
    /\ Callable(cls)
    /\ op' = Call("get_schema", cls, role, FALSE, EMPTY_SCOPE, NoSet)
    /\ rv' = get_schema(cls, role)
    /\ ref_documents' = NoSet
    /\ UNCHANGED graph

CallGetDefinitionsAndSchema(cls, role, res_scope, rd) ==
    /\ Callable(cls)
    /\ op' = Call("get_definitions_and_schema", cls, role, FALSE, res_scope, rd)
    /\ rv' = Document_get_definitions_and_schema(cls, role, res_scope, rd, <<>>)
    /\ ref_documents' = rv'.ref_documents
    /\ UNCHANGED graph

CallIsRecursive(cls, role) ==
    /\ Callable(cls)
    /\ op' = Call("is_recursive", cls, role, TRUE, EMPTY_SCOPE, NoSet)
    /\ rv' = is_recursive(cls, role)
    /\ UNCHANGED <<graph, ref_documents>>

CallWalk(cls, through) ==
    /\ Callable(cls)
    /\ op' = Call("walk", cls, DEFAULT_ROLE, through, EMPTY_SCOPE, NoSet)
    /\ rv' = Document_walk(cls, through, {})
    /\ UNCHANGED <<graph, ref_documents>>

CallIterFields(cls) ==
    /\ Callable(cls)
    /\ op' = Call("iter_fields", cls, DEFAULT_ROLE, FALSE, EMPTY_SCOPE, NoSet)
    /\ rv' = Document_iter_fields(cls)
    /\ UNCHANGED <<graph, ref_documents>>

CallResolveAndWalk(cls, role, through) ==
    /\ Callable(cls)
    /\ op' = Call("resolve_and_walk", cls, role, through, EMPTY_SCOPE, NoSet)
    /\ rv' = Document_resolve_and_walk(cls, role, through, {})
    /\ UNCHANGED <<graph, ref_documents>>

CallResolveAndIterFields(cls, role) ==
    /\ Callable(cls)
    /\ op' = Call("resolve_and_iter_fields", cls, role, FALSE, EMPTY_SCOPE, NoSet)
    /\ rv' = Document_resolve_and_iter_fields(cls, role)
    /\ UNCHANGED <<graph, ref_documents>>

Return ==
    /\ op # Idle
    /\ op' = Idle
    /\ rv' = None
    /\ ref_documents' = NoSet
    /\ UNCHANGED graph

(***************************************************************************)
(* Spec: Documents that refer to each other, and every call on them.       *)
(***************************************************************************)
\* what the one field "p" of class d may be
GraphSlots(d) ==
    {StringField("a")}
    \cup {DocumentField(t, Fid(d, 1)) : t \in Docs}
    \cup {Var(<<Pair(construct_matcher(r), DocumentField(t, Fid(d, 1)))>>) :
              r \in Roles, t \in Docs}
    \cup {ArrayField(DocumentField(t, Fid(d, 1)), DocumentField(u, Fid(d, 2))) :
              t \in Docs, u \in Docs}

GraphBodies(d) ==
    {<<Item("p", slot)>> : slot \in GraphSlots(d)}
    \cup {<<Item("p", slot),
            Item("Options", OptionsClass([definition_id |-> "x"]))>> :
              slot \in GraphSlots(d)}

DeclareDocument ==
    \E d \in Docs : \E attrs \in GraphBodies(d) :
        DocumentMeta_new(d, <<"Document">>, attrs)

GetSchema == \E cls \in Docs, role \in Roles : CallGetSchema(cls, role)

GetDefinitionsAndSchema ==
    \E cls \in Docs, role \in Roles, res_scope \in CallerScopes,
       rd \in CallerRefDocuments :
        CallGetDefinitionsAndSchema(cls, role, res_scope, rd)

IsRecursive == \E cls \in Docs, role \in Roles : CallIsRecursive(cls, role)

Walk == \E cls \in Docs, through \in BOOLEAN : CallWalk(cls, through)

IterFields == \E cls \in Docs : CallIterFields(cls)

ResolveAndWalk ==
    \E cls \in Docs, role \in Roles, through \in BOOLEAN :
        CallResolveAndWalk(cls, role, through)

ResolveAndIterFields ==
    \E cls \in Docs, role \in Roles : CallResolveAndIterFields(cls, role)

Next ==
    \/ DeclareDocument
    \/ GetSchema
    \/ GetDefinitionsAndSchema
    \/ IsRecursive
    \/ Walk
    \/ IterFields
    \/ ResolveAndWalk
    \/ ResolveAndIterFields
    \/ Return

Spec == Init /\ [][Next]_vars

(***************************************************************************)
(* Properties of the calls, checked under Spec.                            *)
(***************************************************************************)
Compiling == op.name \in {"get_schema", "get_definitions_and_schema"}

\* the Documents the DocumentFields of cls point to once every Var is
\* resolved against role
ResolvedTargets(cls, role) ==
    LET walked == Document_resolve_and_walk(cls, role, FALSE, {})
    IN  {walked[i].document_cls :
            i \in {j \in DOMAIN walked : walked[j].kind = "document"}}

RECURSIVE ReachableFrom(_, _)
\* the Documents reachable from those of S along resolved DocumentFields
ReachableFrom(S, role) ==
    LET more == S \cup UNION {ResolvedTargets(d, role) : d \in S}
    IN  IF more = S THEN S ELSE ReachableFrom(more, role)

\* cls lies on a cycle of DocumentFields under role
OnCycle(cls, role) == cls \in ReachableFrom(ResolvedTargets(cls, role), role)

\* C1 (as claimed): get_definitions_and_schema and get_schema come back for
\* every Document graph and role, and the compile walk never enters the
\* compilation of a Document that is already being compiled
C1_CompilationTerminates ==
    Compiling => rv.status = "ok" /\ ~rv.did.reentered

\* C2: is_recursive(role) is true exactly when a DocumentField pointing to
\* the Document is reachable from its own fields, Vars resolved against role
\* and the other Documents descended into
C2_IsRecursiveIffSelfReachable ==
    op.name = "is_recursive" => (rv <=> OnCycle(op.cls, op.role))

\* C2's case: true for a cycle that passes through another Document
C2_Witness ==
    /\ op.name = "is_recursive"
    /\ rv = TRUE
    /\ op.role # DEFAULT_ROLE
    /\ op.cls \notin ResolvedTargets(op.cls, op.role)

\* C3 (as claimed): every "$ref" of the result names a key of the returned
\* definitions
C3_EveryReferenceHasDefinition ==
    (Compiling /\ rv.status = "ok") =>
        \A d \in rv.did.referenced : get_definition_id(d) \in DOMAIN rv.definitions

\* C3 (amended): a Document of the caller's ref_documents met as the target
\* of a nested DocumentField is never compiled, only referred to; every
\* "$ref" of the result names a key of the returned definitions or a
\* Document of the caller's ref_documents
C3_ReferenceHasDefinitionOrIsCallers ==
    (Compiling /\ rv.status = "ok") =>
        LET callers == IF op.ref_documents.kind = "set"
                       THEN op.ref_documents.members ELSE {}
        IN  /\ \A d \in callers \ {op.cls} : d \notin rv.did.compiled
            /\ \A d \in rv.did.referenced :
                   \/ get_definition_id(d) \in DOMAIN rv.definitions
                   \/ d \in callers

\* C3's case: a Document of the caller's set is referred to and has no entry
C3_Witness ==
    /\ op.name = "get_definitions_and_schema"
    /\ rv.status = "ok"
    /\ Truthy(op.ref_documents)
    /\ \E d \in op.ref_documents.members \ {op.cls} :
           /\ d \in rv.did.referenced
           /\ get_definition_id(d) \notin DOMAIN rv.definitions
           /\ rv.did.stored # {}

\* C4 (as claimed): a compilation in which two Documents stored into the
\* definitions have the same definition-id does not return normally
C4_CollisionIsReported ==
    Compiling =>
        ~(/\ rv.status = "ok"
          /\ \E d1 \in rv.did.stored, d2 \in rv.did.stored :
                 d1 # d2 /\ get_definition_id(d1) = get_definition_id(d2))

\* C8: a call leaves the declared classes as they were and the caller's
\* ref_documents set with the members it was passed with
C8_CallsLeaveTheirInputs ==
    [][op' # Idle => (UNCHANGED graph /\ ref_documents' = op'.ref_documents)]_vars

\* C8's case: a recursive Document compiled with a non-empty ref_documents
\* that does not hold it
C8_Witness ==
    /\ op.name = "get_definitions_and_schema"
    /\ rv.status = "ok"
    /\ op.cls \in rv.did.stored
    /\ Truthy(op.ref_documents)
    /\ op.cls \notin op.ref_documents.members
    /\ ref_documents = op.ref_documents

\* C9 (as claimed): a get_definitions_and_schema(role) that returns gives
\* the reference made on the scope reset to its base, with the Document's
\* schema stored under its definition-id, exactly when the Document is
\* recursive under role, and its schema inline with no entry stored otherwise
C9_ReferenceIffRecursiveUnderRole ==
    (op.name = "get_definitions_and_schema" /\ rv.status = "ok") =>
        IF is_recursive(op.cls, op.role)
        THEN /\ rv.schema = create_ref(
                     replace_output(op.res_scope, op.res_scope.base),
                     get_definition_id(op.cls))
             /\ get_definition_id(op.cls) \in DOMAIN rv.definitions
             /\ op.cls \in rv.did.stored
        ELSE /\ "$ref" \notin DOMAIN rv.schema
             /\ op.cls \notin rv.did.stored

(***************************************************************************)
(* SpecFields: the fields and Documents of tests/test_iter_methods.py and  *)
(* their iter_fields and resolve_and_iter_fields.                          *)
(***************************************************************************)
\* the roles of the tests
role_1 == 1
role_2 == 2
role_3 == 3
role_4 == 4
role_none == 5
role_5 == 6
role_6 == 7
role_a == 8
role_b == 9

\* the module-level StringFields a .. g
Fa == StringField("a")
Fb == StringField("b")
Fc == StringField("c")
Fd == StringField("d")
Fe == StringField("e")
Ff == StringField("f")
Fg == StringField("g")

\* Var({role: value, ...})
VarOf(items) ==
    Var([i \in DOMAIN items |->
            Pair(construct_matcher(items[i].key), items[i].value)])

\* test_array_field
ArrayTest1 ==
    ArrayField(
        VarOf(<<Item(role_1, Fa), Item(role_2, Fb), Item(role_none, None)>>),
        VarOf(<<Item(role_3, Fc), Item(role_4, Fd), Item(role_1, Fe),
                Item(role_none, None)>>))

ArrayTest2 ==
    ArrayField(VarOf(<<Item(role_1, Tuple(<<Fa, Fb>>)), Item(role_2, Fc)>>), Fd)

ArrayTest3 ==
    ArrayField(
        Tuple(<<VarOf(<<Item(role_1, Fa), Item(role_2, Fb),
                        Item(role_none, None)>>), Fc>>),
        Bool(TRUE))

ArrayTest4 == ArrayField(Fa, Fb)

ArrayTest5 == ArrayField(None, Bool(TRUE))

\* test_dict_field
DictTest1 ==
    DictField(
        VarOf(<<Item(role_1,
                     Map(<<Item("a", VarOf(<<Item(role_a, Fa),
                                             Item(role_none, None)>>)),
                           Item("b", Fb),
                           Item("role_none", None)>>)),
                Item(role_2, Map(<<Item("c", Fc)>>)),
                Item(role_none, None)>>),
        VarOf(<<Item(role_3,
                     Map(<<Item("x*", VarOf(<<Item(role_b, Fd),
                                              Item(role_none, None)>>))>>)),
                Item(role_4, Map(<<Item("y*", Fe)>>)),
                Item(role_none, None)>>),
        VarOf(<<Item(role_5, Ff), Item(role_6, Fg), Item(role_none, None)>>),
        "")

DictTest2 ==
    DictField(Map(<<Item("a", Fa)>>), Map(<<Item("b", Fb)>>), Fc, "")

DictTest3 == DictField(None, None, Bool(TRUE), "")

\* test_not_field
NotTest1 == NotField(Fa)

NotTest2 ==
    NotField(VarOf(<<Item(role_1, Fa), Item(role_2, Fb), Item(role_3, None)>>))

\* what a branch of a Var may hold
Payloads == {Fa, None, Tuple(<<Fb, Fc>>)}

\* Vars of two branches; the second matches role_2 or every role, so that
\* both may match
TwoBranchVars ==
    {Var(<<Pair(construct_matcher(r1), x), Pair(m2, y)>>) :
        r1 \in Roles, m2 \in {construct_matcher(role_2), all_},
        x \in Payloads, y \in {Fd, None}}

\* the fields the calls are made on: those of the tests, and every array and
\* object built from a two-branch Var
TestFields ==
    {ArrayTest1, ArrayTest2, ArrayTest3, ArrayTest4, ArrayTest5,
     DictTest1, DictTest2, DictTest3, NotTest1, NotTest2}
    \cup {ArrayField(v, more) : v \in TwoBranchVars,
                                more \in {Bool(TRUE),
                                          VarOf(<<Item(role_1, Fe)>>)}}
    \cup {DictField(Map(<<Item("p", v), Item("q", Fe)>>), None, Bool(FALSE), "") :
              v \in TwoBranchVars}
    \cup {DocumentField(cls, Fid(cls, 0)) : cls \in Docs}

\* test_document_field: the bodies of A, B and C, the first branch of B's
\* Var for the default role too
TestBodies ==
    {<<Item("a", Fa), Item("b", Fb)>>, <<>>}
    \cup {<<Item("field", VarOf(<<Item(r1, Fa), Item(role_2, Fb)>>)),
            Item("b", Fc)>> : r1 \in {DEFAULT_ROLE, role_1}}

FieldCall(name, f, role) == [name |-> name, f |-> f, role |-> role]

\* a call on a field; a DocumentField points to a declared class
FieldCallable(f) ==
    /\ op = Idle
    /\ f.kind = "document" => f.document_cls \in registry

CallFieldIterFields(f) ==
    /\ FieldCallable(f)
    /\ op' = FieldCall("Field.iter_fields", f, DEFAULT_ROLE)
    /\ rv' = Field_iter_fields(f)
    /\ UNCHANGED <<graph, ref_documents>>

CallFieldResolveAndIterFields(f, role) ==
    /\ FieldCallable(f)
    /\ op' = FieldCall("Field.resolve_and_iter_fields", f, role)
    /\ rv' = Field_resolve_and_iter_fields(f, role)
    /\ UNCHANGED <<graph, ref_documents>>

DeclareTestDocument ==
    \E d \in Docs : \E attrs \in TestBodies :
        DocumentMeta_new(d, <<"Document">>, attrs)

FieldIterFields == \E f \in TestFields : CallFieldIterFields(f)

FieldResolveAndIterFields ==
    \E f \in TestFields, role \in Roles : CallFieldResolveAndIterFields(f, role)

NextFields ==
    \/ DeclareTestDocument
    \/ FieldIterFields
    \/ FieldResolveAndIterFields
    \/ IterFields
    \/ ResolveAndIterFields
    \/ Return

SpecFields == Init /\ [][NextFields]_vars

(***************************************************************************)
(* Properties of the iterators, checked under SpecFields.                  *)
(***************************************************************************)
\* the branches of a Var that match role
Matching(v, role) == {i \in DOMAIN v.values : role \in v.values[i].matcher}

First(S) == CHOOSE i \in S : \A j \in S : i <= j

RECURSIVE ResolvedMembers(_, _)
\* the set of fields a slot stands for under role
ResolvedMembers(slot, role) ==
    CASE IsBaseField(slot) -> {slot}
      [] slot.kind = "var" ->
            IF Matching(slot, role) = {} THEN {}
            ELSE ResolvedMembers(slot.values[First(Matching(slot, role))].value,
                                 role)
      [] slot.kind = "tuple" ->
            UNION {ResolvedMembers(slot.items[i], role) : i \in DOMAIN slot.items}
      [] slot.kind = "map" ->
            UNION {ResolvedMembers(slot.items[i].value, role) :
                       i \in DOMAIN slot.items}
      [] OTHER -> {}

RECURSIVE Members(_)
\* the set of fields a slot stands for under some role or other
Members(slot) ==
    CASE IsBaseField(slot) -> {slot}
      [] slot.kind = "var" ->
            UNION {Members(slot.values[i].value) : i \in DOMAIN slot.values}
      [] slot.kind = "tuple" ->
            UNION {Members(slot.items[i]) : i \in DOMAIN slot.items}
      [] slot.kind = "map" ->
            UNION {Members(slot.items[i].value) : i \in DOMAIN slot.items}
      [] OTHER -> {}

\* the slots of a composite field; those of a DocumentField are the declared
\* fields of its Document
SlotsOf(f) ==
    CASE f.kind = "array" -> {f.items, f.additional_items}
      [] f.kind = "dict" ->
            {f.properties, f.pattern_properties, f.additional_properties}
      [] f.kind = "not" -> {f.field}
      [] f.kind = "document" -> {Map(fields[f.document_cls])}
      [] OTHER -> {}

Resolved(f, role) ==
    op.name = "Field.resolve_and_iter_fields" /\ op.f = f /\ op.role = role

\* the assertions of the tests on resolve_and_iter_fields
ResolveAssertions ==
    /\ Resolved(ArrayTest1, role_1) => Range(rv) = {Fa, Fe}
    /\ Resolved(ArrayTest1, role_3) => Range(rv) = {Fc}
    /\ Resolved(ArrayTest1, role_none) => Range(rv) = {}
    /\ Resolved(ArrayTest3, role_1) => Range(rv) = {Fa, Fc}
    /\ Resolved(ArrayTest3, role_none) => Range(rv) = {Fc}
    /\ Resolved(ArrayTest4, DEFAULT_ROLE) => Range(rv) = {Fa, Fb}
    /\ Resolved(NotTest1, DEFAULT_ROLE) => Range(rv) = {Fa}
    /\ Resolved(NotTest2, role_1) => Range(rv) = {Fa}
    /\ Resolved(NotTest2, role_3) => Range(rv) = {}

\* C6: resolve_and_iter_fields(role) of a composite field or a Document
\* yields the unconditional fields and, for every Var slot, the payload of
\* the branch role matches (every member of a tuple); a slot whose matched
\* payload is None or that has no matching branch gives nothing
C6_ResolveYieldsMatchedBranches ==
    /\ op.name = "Field.resolve_and_iter_fields" =>
           Range(rv) = UNION {ResolvedMembers(slot, op.role) : slot \in SlotsOf(op.f)}
    /\ op.name = "resolve_and_iter_fields" =>
           Range(rv) = ResolvedMembers(Map(fields[op.cls]), op.role)
    /\ ResolveAssertions

\* C6's case: the Var of a tuple of items resolves to None and the
\* unconditional item is yielded
C6_Witness ==
    /\ Resolved(ArrayTest3, role_none)
    /\ Range(rv) = {Fc}

Iterated(f) == op.name = "Field.iter_fields" /\ op.f = f

\* the assertions of the tests on iter_fields
IterAssertions ==
    /\ Iterated(ArrayTest1) => Range(rv) = {Fa, Fb, Fc, Fd, Fe}
    /\ Iterated(ArrayTest2) => Range(rv) = {Fa, Fb, Fc, Fd}
    /\ Iterated(ArrayTest3) => Range(rv) = {Fa, Fb, Fc}
    /\ Iterated(ArrayTest4) => Range(rv) = {Fa, Fb}
    /\ Iterated(ArrayTest5) => Range(rv) = {}
    /\ Iterated(DictTest1) => Range(rv) = {Fa, Fb, Fc, Fd, Fe, Ff, Fg}
    /\ Iterated(DictTest2) => Range(rv) = {Fa, Fb, Fc}
    /\ Iterated(DictTest3) => Range(rv) = {}
    /\ Iterated(NotTest1) => Range(rv) = {Fa}
    /\ Iterated(NotTest2) => Range(rv) = {Fa, Fb}
    /\ \A cls \in Docs :
           Iterated(DocumentField(cls, Fid(cls, 0))) =>
               /\ class_attrs[cls] = <<Item("a", Fa), Item("b", Fb)>> =>
                      Range(rv) = {Fa, Fb}
               /\ Len(class_attrs[cls]) = 2 /\ class_attrs[cls][1].key = "field" =>
                      Range(rv) = {Fa, Fb, Fc}
               /\ class_attrs[cls] = <<>> => Range(rv) = {}

\* C7: iter_fields() yields the fields of every branch of every Var slot,
\* None skipped, tuples and property mappings flattened; on a DocumentField
\* and on a Document it yields the Document's declared fields, every Var
\* branch among them, and never the Document's implicit object field
C7_IterYieldsEveryBranch ==
    /\ op.name = "Field.iter_fields" =>
           Range(rv) = UNION {Members(slot) : slot \in SlotsOf(op.f)}
    /\ op.name = "iter_fields" =>
           /\ Range(rv) = Members(Map(fields[op.cls]))
           /\ field[op.cls] \notin Range(rv)
    /\ IterAssertions

\* C7's case: iter_fields of the DocumentField of the test's class B
C7_Witness ==
    /\ op.name = "Field.iter_fields"
    /\ op.f.kind = "document"
    /\ Len(class_attrs[op.f.document_cls]) = 2
    /\ class_attrs[op.f.document_cls][1].key = "field"
    /\ Range(rv) = {Fa, Fb, Fc}

(***************************************************************************)
(* SpecMeta: class bodies with fields, Scopes and Options, a class derived *)
(* from another, and get_schema.                                           *)
(***************************************************************************)
\* the Options classes of the bodies
MetaOptions ==
    {OptionsClass([schema_uri |-> NoneValue]),
     OptionsClass([schema_uri |-> "http://other/schema#"]),
     OptionsClass([id |-> "http://id/", definition_id |-> NoneValue])}

\* the attributes of the bodies: fields declared directly, Scopes declaring
\* fields of the same names, and Options
MetaAttrs ==
    {Item("p", StringField("p")),
     Item("q", StringField("q")),
     Item("s1", Scope(construct_matcher(role_1), <<Item("p", StringField("s1.p"))>>)),
     Item("s1", Scope(construct_matcher(role_1),
                      <<Item("p", StringField("s1.p")),
                        Item("q", StringField("s1.q"))>>)),
     Item("s2", Scope(construct_matcher(role_2), <<Item("p", StringField("s2.p"))>>))}
    \cup {Item("Options", o) : o \in MetaOptions}

RECURSIVE MetaBodies(_)
\* the class bodies of at most n attributes: an attribute name is bound once
MetaBodies(n) ==
    IF n = 0 THEN {<<>>}
    ELSE LET shorter == MetaBodies(n - 1)
         IN  shorter \cup {Append(body, attr) :
                              body \in {b \in shorter : Len(b) = n - 1},
                              attr \in MetaAttrs}

DistinctKeys(body) ==
    \A i \in DOMAIN body, j \in DOMAIN body : i # j => body[i].key # body[j].key

\* the bodies of the base class A
MetaBaseBodies ==
    {<<Item("p", StringField("A.p"))>>,
     <<Item("p", StringField("A.p")), Item("r", StringField("A.r")),
       Item("Options", OptionsClass([schema_uri |-> "http://base/schema#"]))>>,
     <<Item("r", StringField("A.r")),
       Item("Options", OptionsClass([schema_uri |-> NoneValue, id |-> "http://a/"]))>>}

DeclareMetaDocument ==
    \/ \E attrs \in MetaBaseBodies : DocumentMeta_new("A", <<"Document">>, attrs)
    \/ \E attrs \in {b \in MetaBodies(MaxAttrs) : DistinctKeys(b)} :
       \E bases \in {<<"Document">>, <<"A">>} :
           DocumentMeta_new("B", bases, attrs)

NextMeta ==
    \/ DeclareMetaDocument
    \/ GetSchema
    \/ Return

SpecMeta == Init /\ [][NextMeta]_vars

(***************************************************************************)
(* Properties of declaration and of get_schema, checked under SpecMeta.    *)
(***************************************************************************)
\* the declaration of cls sets schema_uri to None
SchemaUriSetToNone(cls) ==
    /\ HasKey(class_attrs[cls], "Options")
    /\ "schema_uri" \in DOMAIN Get(class_attrs[cls], "Options").members
    /\ Get(class_attrs[cls], "Options").members["schema_uri"] = NoneValue

TopLevelKeys == {"id", "$schema", "definitions"}

\* the fragment get_schema layers the top-level keys around
Fragment(cls, role) ==
    Document_get_definitions_and_schema(
        cls, role, ResolutionScope(options[cls].id, options[cls].id, ""),
        NoSet, <<>>)

\* C5 (as claimed): the schema get_schema returns has "id" exactly when the
\* id option is not empty, "$schema" exactly when the declaration did not
\* set schema_uri to None, "definitions" exactly when the definitions are
\* not empty, and otherwise the keys of the compiled fragment
C5_TopLevelKeywords ==
    (op.name = "get_schema" /\ rv.status = "ok") =>
        /\ "id" \in DOMAIN rv.schema <=> options[op.cls].id # ""
        /\ "$schema" \in DOMAIN rv.schema <=> ~SchemaUriSetToNone(op.cls)
        /\ "definitions" \in DOMAIN rv.schema <=> DOMAIN rv.definitions # {}
        /\ DOMAIN rv.schema \ TopLevelKeys
               = DOMAIN Fragment(op.cls, op.role).schema \ TopLevelKeys

\* attribute attr of a class body declares the field name: directly, or in a
\* Scope
Declares(attr, name) ==
    \/ attr.key = name /\ (IsBaseField(attr.value) \/ IsVar(attr.value))
    \/ IsScope(attr.value) /\ HasKey(attr.value.fields, name)

InScope(attr, name) == IsScope(attr.value) /\ HasKey(attr.value.fields, name)

\* one (matcher, field) pair for every Scope of the body that declares name,
\* in the order of the body
ScopePairs(attrs, name) ==
    LET declaring == SelectSeq(attrs, LAMBDA attr : InScope(attr, name))
    IN  [i \in DOMAIN declaring |->
            Pair(declaring[i].value.matcher, Get(declaring[i].value.fields, name))]

Last(S) == CHOOSE i \in S : \A j \in S : j <= i

FieldNames == {"p", "q", "r", "s1", "s2", "Options"}

\* C10 (as claimed): a name that appears in a Scope of the class body is
\* mapped to the Var of the Scopes that declare it
C10_ScopeNameBecomesVar ==
    \A cls \in registry, name \in FieldNames :
        (\E i \in DOMAIN class_attrs[cls] : InScope(class_attrs[cls][i], name)) =>
            /\ HasKey(fields[cls], name)
            /\ Get(fields[cls], name) = Var(ScopePairs(class_attrs[cls], name))

\* the mapping of cls as its declaration determines it
DeclaredMapping(cls) ==
    LET attrs == class_attrs[cls]
        inherited == fields[class_bases[cls][1]]
    IN  \A name \in FieldNames :
            LET declaring == {i \in DOMAIN attrs : Declares(attrs[i], name)}
            IN  IF declaring = {}
                THEN /\ HasKey(fields[cls], name) <=> HasKey(inherited, name)
                     /\ HasKey(inherited, name) =>
                            Get(fields[cls], name) = Get(inherited, name)
                ELSE /\ HasKey(fields[cls], name)
                     /\ Get(fields[cls], name) =
                            IF InScope(attrs[Last(declaring)], name)
                            THEN Var(ScopePairs(attrs, name))
                            ELSE attrs[Last(declaring)].value

\* C10 (amended): the mapping is the base's fields overlaid by the class's
\* declarations; of a name the body declares, its last declaration decides:
\* the field declared directly when that comes after every Scope declaring
\* the name, else the Var of one pair per Scope declaring it, in their
\* order; no later operation changes the mapping
C10_LastDeclarationDecides ==
    /\ [](\A cls \in registry : DeclaredMapping(cls))
    /\ [][\A cls \in registry : fields'[cls] = fields[cls]]_vars

\* C10's case: a class derived from A whose body declares p, inherited from
\* A, in two Scopes and nowhere after them
C10_Witness ==
    /\ {"A", "B"} \subseteq registry
    /\ class_bases["B"] = <<"A">>
    /\ HasKey(fields["A"], "p")
    /\ Len(ScopePairs(class_attrs["B"], "p")) = 2
    /\ Get(fields["B"], "p") = Var(ScopePairs(class_attrs["B"], "p"))
    /\ HasKey(fields["B"], "r")

====
